---- MODULE Spec2Model ----
(***************************************************************************)
(* Sign-in form of src/src/App.jsx: two text fields validated on every     *)
(* change and on submit, a memoised validity flag that drives the submit   *)
(* button, and a success flag cleared by every edit.                       *)
(*                                                                         *)
(* A text value is a sequence of one-character strings (its UTF-16 code    *)
(* units), so that `!input` is input = <<>> and input.length is Len(input).*)
(* A message is a TLA+ string; "" is the "no error" value.                 *)
(***************************************************************************)
EXTENDS Integers, Sequences, FiniteSets, TLC

VARIABLES
    email,          \* useState('')    App.jsx:47
    password,       \* useState('')    App.jsx:48
    emailError,     \* useState('')    App.jsx:51
    passwordError,  \* useState('')    App.jsx:52
    isSubmitted,    \* useState(false) App.jsx:55
    memoDeps,       \* dependency values of the last useMemo evaluation, App.jsx:89
    isFormValid,    \* value held by useMemo, App.jsx:87
    diag,           \* console calls made by the handler that ran last
    lastEvent,      \* history: the handler that ran last, its argument, and
                    \* what isSubmitted / the field were when it started
    closure,        \* the email and password captured by the handlers that
                    \* the latest render created, App.jsx:92-115
    recomputed,     \* history: the fields whose stored error has been set by
                    \* a handler since mount
    input,          \* argument of a direct validator call
    called,         \* validators that have been called on input
    emailResult,    \* value returned by validateEmail(input)
    passwordResult  \* value returned by validatePassword(input)

formVars == <<email, password, emailError, passwordError, isSubmitted,
              memoDeps, isFormValid, diag, lastEvent, closure, recomputed>>
callVars == <<input, called, emailResult, passwordResult>>
vars == <<email, password, emailError, passwordError, isSubmitted,
          memoDeps, isFormValid, diag, lastEvent, closure, recomputed,
          input, called, emailResult, passwordResult>>

----------------------------------------------------------------------------
(* Bounds *)

MaxEmailLen == 5
MaxPasswordLen == 6
MaxInputLen == 6

(* Characters.  WhiteSpace stands for the class \s, the others are \S. *)
WhiteSpace == {" "}
EmailKeys == {"a", "@", ".", " "}
PasswordKeys == {"p"}
InputChars == {"a", "@", ".", " "}

RECURSIVE StringsUpTo(_, _)
StringsUpTo(chars, n) ==
    IF n = 0 THEN {<<>>}
    ELSE LET shorter == StringsUpTo(chars, n - 1)
         IN  shorter \cup {Append(s, c) : s \in {t \in shorter : Len(t) = n - 1}, c \in chars}

Front(s) == SubSeq(s, 1, Len(s) - 1)

----------------------------------------------------------------------------
(* Configuration constants *)

(* /^\S+@\S+\.\S+$/ as its sequence of atoms; cls "S" is the class \S, any  *)
(* other cls is that literal character; plus marks the + quantifier.       *)
EMAIL_REGEX ==
    << [cls |-> "S", plus |-> TRUE],
       [cls |-> "@", plus |-> FALSE],
       [cls |-> "S", plus |-> TRUE],
       [cls |-> ".", plus |-> FALSE],
       [cls |-> "S", plus |-> TRUE] >>

MIN_PASSWORD_LENGTH == 6

(* Variant: \S written as `.`, which also matches whitespace. *)
AtomMatches_AnyChar(cls, ch) ==
    IF cls = "S" THEN TRUE ELSE ch = cls

AtomMatches(cls, ch) ==
    IF cls = "S" THEN ch \notin WhiteSpace ELSE ch = cls

(* Backtracking match of atoms k.. of re against s from position i; the    *)
(* pattern ends with $, so running out of atoms succeeds only at the end   *)
(* of s.                                                                   *)
RECURSIVE MatchFrom(_, _, _, _)
MatchFrom(re, k, s, i) ==
    IF k > Len(re) THEN i = Len(s) + 1
    ELSE IF i > Len(s) THEN FALSE
    ELSE IF ~AtomMatches(re[k].cls, s[i]) THEN FALSE
    ELSE IF re[k].plus
         THEN MatchFrom(re, k, s, i + 1) \/ MatchFrom(re, k + 1, s, i + 1)
         ELSE MatchFrom(re, k + 1, s, i + 1)

(* RegExp.prototype.test for a pattern that starts with ^ (no g/y/m flag). *)
RegexTest(re, s) == MatchFrom(re, 1, s, 1)

----------------------------------------------------------------------------
(* Validation functions *)

(* Variant: the format test placed before the emptiness test. *)
validateEmail_FormatFirst(in) ==
    IF ~RegexTest(EMAIL_REGEX, in)
    THEN "Please enter a valid email address (e.g., user@domain.com)."
    ELSE IF in = <<>> THEN "Email is required."
    ELSE ""

validateEmail(in) ==
    IF in = <<>> THEN "Email is required."
    ELSE IF ~RegexTest(EMAIL_REGEX, in)
         THEN "Please enter a valid email address (e.g., user@domain.com)."
    ELSE ""

(* Variant: <= in place of < in the length test. *)
validatePassword_OffByOne(in) ==
    IF in = <<>> THEN "Password is required."
    ELSE IF Len(in) <= MIN_PASSWORD_LENGTH
         THEN "Password must be at least " \o ToString(MIN_PASSWORD_LENGTH)
              \o " characters long."
    ELSE ""

validatePassword(in) ==
    IF in = <<>> THEN "Password is required."
    ELSE IF Len(in) < MIN_PASSWORD_LENGTH
         THEN "Password must be at least " \o ToString(MIN_PASSWORD_LENGTH)
              \o " characters long."
    ELSE ""

----------------------------------------------------------------------------
(* Render: the useMemo of isFormValid.  The callback is re-run only when a *)
(* dependency differs from the one of the previous evaluation; the two     *)
(* validators are stable (useCallback with []), so the dependencies that   *)
(* can change are email and password.                                      *)

(* Variant: validity read from the stored errors instead of the values. *)
ComputeIsFormValid_FromStoredErrors(e, p) ==
    emailError = "" /\ passwordError = ""

ComputeIsFormValid(e, p) ==
    validateEmail(e) = "" /\ validatePassword(p) = ""

(* Variant: password left out of the dependency array. *)
MemoDepsOf_EmailOnly(e, p) == <<e>>

MemoDepsOf(e, p) == <<e, p>>

(* Variant: the handlers keep the values of the first render (a handler   *)
(* memoised with an empty dependency array).                               *)
Render_StaleClosure(e, p) ==
    /\ IF MemoDepsOf(e, p) = memoDeps
       THEN UNCHANGED <<memoDeps, isFormValid>>
       ELSE /\ memoDeps' = MemoDepsOf(e, p)
            /\ isFormValid' = ComputeIsFormValid(e, p)
    /\ closure' = closure

(* The render that follows a handler: e and p are the state values it      *)
(* renders; the handlers it creates close over them.                       *)
Render(e, p) ==
    /\ IF MemoDepsOf(e, p) = memoDeps
       THEN UNCHANGED <<memoDeps, isFormValid>>
       ELSE /\ memoDeps' = MemoDepsOf(e, p)
            /\ isFormValid' = ComputeIsFormValid(e, p)
    /\ closure' = [email |-> e, password |-> p]

----------------------------------------------------------------------------
(* Mount *)

Init ==
    /\ email = <<>>
    /\ password = <<>>
    /\ emailError = ""
    /\ passwordError = ""
    /\ isSubmitted = FALSE
    /\ memoDeps = MemoDepsOf(<<>>, <<>>)
    /\ isFormValid = ComputeIsFormValid(<<>>, <<>>)
    /\ diag = <<>>
    /\ lastEvent = [op |-> "mount", arg |-> <<>>, wasSubmitted |-> FALSE, same |-> FALSE]
    /\ closure = [email |-> <<>>, password |-> <<>>]
    /\ recomputed = {}
    /\ input = <<>>
    /\ called = {}
    /\ emailResult = ""
    /\ passwordResult = ""

----------------------------------------------------------------------------
(* Event handlers *)

(* Variant: the submission flag is not reset by an email change. *)
handleEmailChange_NoReset(newEmail) ==
    /\ email' = newEmail
    /\ emailError' = validateEmail(newEmail)
    /\ isSubmitted' = isSubmitted
    /\ Render(newEmail, password)
    /\ diag' = <<>>
    /\ lastEvent' = [op |-> "emailChange", arg |-> newEmail,
                     wasSubmitted |-> isSubmitted, same |-> (newEmail = email)]
    /\ recomputed' = recomputed \cup {"email"}
    /\ UNCHANGED <<password, passwordError>>
    /\ UNCHANGED callVars

(* Variant: an email change also re-validates the password field. *)
handleEmailChange_RevalidatesAll(newEmail) ==
    /\ email' = newEmail
    /\ emailError' = validateEmail(newEmail)
    /\ passwordError' = validatePassword(password)
    /\ isSubmitted' = FALSE
    /\ Render(newEmail, password)
    /\ diag' = <<>>
    /\ lastEvent' = [op |-> "emailChange", arg |-> newEmail,
                     wasSubmitted |-> isSubmitted, same |-> (newEmail = email)]
    /\ recomputed' = recomputed \cup {"email"}
    /\ UNCHANGED password
    /\ UNCHANGED callVars

handleEmailChange(newEmail) ==
    /\ email' = newEmail
    /\ emailError' = validateEmail(newEmail)
    /\ isSubmitted' = FALSE
    /\ Render(newEmail, password)
    /\ diag' = <<>>
    /\ lastEvent' = [op |-> "emailChange", arg |-> newEmail,
                     wasSubmitted |-> isSubmitted, same |-> (newEmail = email)]
    /\ recomputed' = recomputed \cup {"email"}
    /\ UNCHANGED <<password, passwordError>>
    /\ UNCHANGED callVars

(* Variant: the submission flag survives a password change to a valid value. *)
handlePasswordChange_ResetIfInvalid(newPassword) ==
    /\ password' = newPassword
    /\ passwordError' = validatePassword(newPassword)
    /\ isSubmitted' = (isSubmitted /\ validatePassword(newPassword) = "")
    /\ Render(email, newPassword)
    /\ diag' = <<>>
    /\ lastEvent' = [op |-> "passwordChange", arg |-> newPassword,
                     wasSubmitted |-> isSubmitted, same |-> (newPassword = password)]
    /\ recomputed' = recomputed \cup {"password"}
    /\ UNCHANGED <<email, emailError>>
    /\ UNCHANGED callVars

(* Variant: the error is computed from the value of the previous render. *)
handlePasswordChange_StaleValue(newPassword) ==
    /\ password' = newPassword
    /\ passwordError' = validatePassword(password)
    /\ isSubmitted' = FALSE
    /\ Render(email, newPassword)
    /\ diag' = <<>>
    /\ lastEvent' = [op |-> "passwordChange", arg |-> newPassword,
                     wasSubmitted |-> isSubmitted, same |-> (newPassword = password)]
    /\ recomputed' = recomputed \cup {"password"}
    /\ UNCHANGED <<email, emailError>>
    /\ UNCHANGED callVars

(* Variant: the password error is taken from the email validator. *)
handlePasswordChange_EmailValidator(newPassword) ==
    /\ password' = newPassword
    /\ passwordError' = validateEmail(newPassword)
    /\ isSubmitted' = FALSE
    /\ Render(email, newPassword)
    /\ diag' = <<>>
    /\ lastEvent' = [op |-> "passwordChange", arg |-> newPassword,
                     wasSubmitted |-> isSubmitted, same |-> (newPassword = password)]
    /\ recomputed' = recomputed \cup {"password"}
    /\ UNCHANGED <<email, emailError>>
    /\ UNCHANGED callVars

handlePasswordChange(newPassword) ==
    /\ password' = newPassword
    /\ passwordError' = validatePassword(newPassword)
    /\ isSubmitted' = FALSE
    /\ Render(email, newPassword)
    /\ diag' = <<>>
    /\ lastEvent' = [op |-> "passwordChange", arg |-> newPassword,
                     wasSubmitted |-> isSubmitted, same |-> (newPassword = password)]
    /\ recomputed' = recomputed \cup {"password"}
    /\ UNCHANGED <<email, emailError>>
    /\ UNCHANGED callVars

(* Variant: setIsSubmitted(true) missing from the success branch. *)
handleSubmit_NoSuccessFlag ==
    LET finalEmailError == validateEmail(closure.email)
        finalPasswordError == validatePassword(closure.password)
    IN  /\ emailError' = finalEmailError
        /\ passwordError' = finalPasswordError
        /\ IF finalEmailError # "" \/ finalPasswordError # ""
           THEN /\ diag' = << <<"error", "Submission failed due to invalid form data.">> >>
                /\ isSubmitted' = FALSE
           ELSE /\ diag' = << <<"log", "Form Submitted Successfully!",
                                [email |-> closure.email, password |-> closure.password]>> >>
                /\ isSubmitted' = isSubmitted
        /\ Render(email, password)
        /\ lastEvent' = [op |-> "submit", arg |-> <<>>,
                         wasSubmitted |-> isSubmitted, same |-> FALSE]
        /\ recomputed' = {"email", "password"}
        /\ UNCHANGED <<email, password>>
        /\ UNCHANGED callVars

(* Variant: && in place of || in the failure test. *)
handleSubmit_BothInvalid ==
    LET finalEmailError == validateEmail(closure.email)
        finalPasswordError == validatePassword(closure.password)
    IN  /\ emailError' = finalEmailError
        /\ passwordError' = finalPasswordError
        /\ IF finalEmailError # "" /\ finalPasswordError # ""
           THEN /\ diag' = << <<"error", "Submission failed due to invalid form data.">> >>
                /\ isSubmitted' = FALSE
           ELSE /\ diag' = << <<"log", "Form Submitted Successfully!",
                                [email |-> closure.email, password |-> closure.password]>> >>
                /\ isSubmitted' = TRUE
        /\ Render(email, password)
        /\ lastEvent' = [op |-> "submit", arg |-> <<>>,
                         wasSubmitted |-> isSubmitted, same |-> FALSE]
        /\ recomputed' = {"email", "password"}
        /\ UNCHANGED <<email, password>>
        /\ UNCHANGED callVars

(* Variant: the success branch toggles the flag instead of setting it. *)
handleSubmit_Toggle ==
    LET finalEmailError == validateEmail(closure.email)
        finalPasswordError == validatePassword(closure.password)
    IN  /\ emailError' = finalEmailError
        /\ passwordError' = finalPasswordError
        /\ IF finalEmailError # "" \/ finalPasswordError # ""
           THEN /\ diag' = << <<"error", "Submission failed due to invalid form data.">> >>
                /\ isSubmitted' = FALSE
           ELSE /\ diag' = << <<"log", "Form Submitted Successfully!",
                                [email |-> closure.email, password |-> closure.password]>> >>
                /\ isSubmitted' = ~isSubmitted
        /\ Render(email, password)
        /\ lastEvent' = [op |-> "submit", arg |-> <<>>,
                         wasSubmitted |-> isSubmitted, same |-> FALSE]
        /\ recomputed' = {"email", "password"}
        /\ UNCHANGED <<email, password>>
        /\ UNCHANGED callVars

(* Variant: setEmailError(finalEmailError) missing. *)
handleSubmit_NoEmailErrorStore ==
    LET finalEmailError == validateEmail(closure.email)
        finalPasswordError == validatePassword(closure.password)
    IN  /\ emailError' = emailError
        /\ passwordError' = finalPasswordError
        /\ IF finalEmailError # "" \/ finalPasswordError # ""
           THEN /\ diag' = << <<"error", "Submission failed due to invalid form data.">> >>
                /\ isSubmitted' = FALSE
           ELSE /\ diag' = << <<"log", "Form Submitted Successfully!",
                                [email |-> closure.email, password |-> closure.password]>> >>
                /\ isSubmitted' = TRUE
        /\ Render(email, password)
        /\ lastEvent' = [op |-> "submit", arg |-> <<>>,
                         wasSubmitted |-> isSubmitted, same |-> FALSE]
        /\ recomputed' = {"email", "password"}
        /\ UNCHANGED <<email, password>>
        /\ UNCHANGED callVars

(* Variant: the success log placed before the validity test. *)
handleSubmit_LogBeforeTest ==
    LET finalEmailError == validateEmail(closure.email)
        finalPasswordError == validatePassword(closure.password)
    IN  /\ emailError' = finalEmailError
        /\ passwordError' = finalPasswordError
        /\ IF finalEmailError # "" \/ finalPasswordError # ""
           THEN /\ diag' = << <<"log", "Form Submitted Successfully!",
                                [email |-> closure.email, password |-> closure.password]>> >> \o << <<"error", "Submission failed due to invalid form data.">> >>
                /\ isSubmitted' = FALSE
           ELSE /\ diag' = << <<"log", "Form Submitted Successfully!",
                                [email |-> closure.email, password |-> closure.password]>> >>
                /\ isSubmitted' = TRUE
        /\ Render(email, password)
        /\ lastEvent' = [op |-> "submit", arg |-> <<>>,
                         wasSubmitted |-> isSubmitted, same |-> FALSE]
        /\ recomputed' = {"email", "password"}
        /\ UNCHANGED <<email, password>>
        /\ UNCHANGED callVars

(* Variant: the fields are cleared after a successful submit. *)
handleSubmit_ClearsFields ==
    LET finalEmailError == validateEmail(closure.email)
        finalPasswordError == validatePassword(closure.password)
    IN  /\ emailError' = finalEmailError
        /\ passwordError' = finalPasswordError
        /\ IF finalEmailError # "" \/ finalPasswordError # ""
           THEN /\ diag' = << <<"error", "Submission failed due to invalid form data.">> >>
                /\ isSubmitted' = FALSE
                /\ UNCHANGED <<email, password>>
                /\ Render(email, password)
           ELSE /\ diag' = << <<"log", "Form Submitted Successfully!",
                                [email |-> closure.email, password |-> closure.password]>> >>
                /\ isSubmitted' = TRUE
                /\ email' = <<>>
                /\ password' = <<>>
                /\ Render(<<>>, <<>>)
        /\ lastEvent' = [op |-> "submit", arg |-> <<>>,
                         wasSubmitted |-> isSubmitted, same |-> FALSE]
        /\ recomputed' = {"email", "password"}
        /\ UNCHANGED callVars

handleSubmit ==
    LET finalEmailError == validateEmail(closure.email)
        finalPasswordError == validatePassword(closure.password)
    IN  /\ emailError' = finalEmailError
        /\ passwordError' = finalPasswordError
        /\ IF finalEmailError # "" \/ finalPasswordError # ""
           THEN /\ diag' = << <<"error", "Submission failed due to invalid form data.">> >>
                /\ isSubmitted' = FALSE
           ELSE /\ diag' = << <<"log", "Form Submitted Successfully!",
                                [email |-> closure.email, password |-> closure.password]>> >>
                /\ isSubmitted' = TRUE
        /\ Render(email, password)
        /\ lastEvent' = [op |-> "submit", arg |-> <<>>,
                         wasSubmitted |-> isSubmitted, same |-> FALSE]
        /\ recomputed' = {"email", "password"}
        /\ UNCHANGED <<email, password>>
        /\ UNCHANGED callVars

----------------------------------------------------------------------------
(* The user's input events: a typed key, a deletion of the last character, *)
(* or a change event that carries the value the field already has.         *)

EmailEdits ==
    {Append(email, c) : c \in IF Len(email) < MaxEmailLen THEN EmailKeys ELSE {}}
    \cup (IF email # <<>> THEN {Front(email)} ELSE {})
    \cup {email}

PasswordEdits ==
    {Append(password, c) : c \in IF Len(password) < MaxPasswordLen THEN PasswordKeys ELSE {}}
    \cup (IF password # <<>> THEN {Front(password)} ELSE {})
    \cup {password}

EmailChange == \E v \in EmailEdits : handleEmailChange(v)

PasswordChange == \E v \in PasswordEdits : handlePasswordChange(v)

Submit == handleSubmit

Next == EmailChange \/ PasswordChange \/ Submit

Spec == Init /\ [][Next]_vars

----------------------------------------------------------------------------
(* The form as the page drives it: the Sign In button carries              *)
(* disabled={!isFormValid}, and a submit event is issued only through an   *)
(* enabled button.                                                         *)

ButtonDisabled == ~isFormValid

SubmitClick == ~ButtonDisabled /\ handleSubmit

NextButton == EmailChange \/ PasswordChange \/ SubmitClick

SpecButton == Init /\ [][NextButton]_vars

----------------------------------------------------------------------------
(* Direct calls of the two validators on every input up to MaxInputLen.    *)

InitCall ==
    /\ email = <<>>
    /\ password = <<>>
    /\ emailError = ""
    /\ passwordError = ""
    /\ isSubmitted = FALSE
    /\ memoDeps = MemoDepsOf(<<>>, <<>>)
    /\ isFormValid = ComputeIsFormValid(<<>>, <<>>)
    /\ diag = <<>>
    /\ lastEvent = [op |-> "mount", arg |-> <<>>, wasSubmitted |-> FALSE, same |-> FALSE]
    /\ closure = [email |-> <<>>, password |-> <<>>]
    /\ recomputed = {}
    /\ input \in StringsUpTo(InputChars, MaxInputLen)
    /\ called = {}
    /\ emailResult = ""
    /\ passwordResult = ""

CallValidateEmail ==
    /\ "validateEmail" \notin called
    /\ emailResult' = validateEmail(input)
    /\ called' = called \cup {"validateEmail"}
    /\ UNCHANGED <<input, passwordResult>>
    /\ UNCHANGED formVars

CallValidatePassword ==
    /\ "validatePassword" \notin called
    /\ passwordResult' = validatePassword(input)
    /\ called' = called \cup {"validatePassword"}
    /\ UNCHANGED <<input, emailResult>>
    /\ UNCHANGED formVars

NextCall == CallValidateEmail \/ CallValidatePassword

SpecCall == InitCall /\ [][NextCall]_vars

----------------------------------------------------------------------------
(* Properties of handleSubmit *)

(* C1: a submit taken while validateEmail(email) = "" and                  *)
(* validatePassword(password) = "" ends with isSubmitted true and both     *)
(* stored errors empty, whatever they were before.                         *)
C1_ValidSubmitAccepted ==
    [][ ( /\ lastEvent'.op = "submit"
          /\ validateEmail(email) = ""
          /\ validatePassword(password) = "" )
        => ( /\ isSubmitted' = TRUE
             /\ emailError' = ""
             /\ passwordError' = "" ) ]_vars

C1_Witness ==
    /\ lastEvent.op = "submit"
    /\ lastEvent.wasSubmitted = FALSE
    /\ isSubmitted
    /\ emailError = ""
    /\ passwordError = ""
    /\ validateEmail(email) = ""
    /\ validatePassword(password) = ""

(* C2: a submit taken while at least one validator rejects its field ends  *)
(* with isSubmitted false, emailError = validateEmail(email) and           *)
(* passwordError = validatePassword(password): the exact message for each  *)
(* invalid field and "" for a valid one.  The handler completes normally,  *)
(* its only other effect being the one failure diagnostic.                 *)
C2_InvalidSubmitRejected ==
    [][ ( /\ lastEvent'.op = "submit"
          /\ (validateEmail(email) # "" \/ validatePassword(password) # "") )
        => ( /\ isSubmitted' = FALSE
             /\ emailError' = validateEmail(email)
             /\ passwordError' = validatePassword(password)
             /\ (email = <<>> => emailError' = "Email is required.")
             /\ (password = <<>> => passwordError' = "Password is required.")
             /\ (email = <<"a", "a", "a">> =>
                   emailError' = "Please enter a valid email address (e.g., user@domain.com).")
             /\ (password = <<"p", "p", "p">> =>
                   passwordError' = "Password must be at least 6 characters long.")
             /\ (validateEmail(email) = "" => emailError' = "")
             /\ (validatePassword(password) = "" => passwordError' = "")
             /\ Len(diag') = 1 /\ diag'[1][1] = "error" ) ]_vars

C2_Witness ==
    /\ lastEvent.op = "submit"
    /\ ~isSubmitted
    /\ emailError = "Please enter a valid email address (e.g., user@domain.com)."
    /\ passwordError = ""
    /\ Len(password) >= 6

----------------------------------------------------------------------------
(* Properties of the submission flag *)

(* C3: every email-change or password-change taken while isSubmitted is    *)
(* true ends with isSubmitted false, also when the new value equals the    *)
(* current one and when the new value is valid.                            *)
C3_EditClearsSubmitted ==
    [][ ( /\ lastEvent'.op \in {"emailChange", "passwordChange"}
          /\ isSubmitted = TRUE )
        => isSubmitted' = FALSE ]_vars

C3_Witness ==
    /\ lastEvent.op = "emailChange"
    /\ lastEvent.wasSubmitted
    /\ lastEvent.same
    /\ validateEmail(email) = ""
    /\ validatePassword(password) = ""
    /\ ~isSubmitted

(* C4: isSubmitted is true only when the handler that ran last was a       *)
(* submit and both validators accept the email and password it read (which *)
(* a submit leaves in place); after an edit or a failed submit it is       *)
(* false.                                                                  *)
C4_SubmittedOnlyAfterValidSubmit ==
    /\ isSubmitted = TRUE =>
          /\ lastEvent.op = "submit"
          /\ validateEmail(email) = ""
          /\ validatePassword(password) = ""
    /\ lastEvent.op \in {"emailChange", "passwordChange"} => isSubmitted = FALSE
    /\ ( lastEvent.op = "submit"
         /\ (validateEmail(email) # "" \/ validatePassword(password) # "") )
       => isSubmitted = FALSE

C4_Witness ==
    /\ isSubmitted
    /\ lastEvent.op = "submit"
    /\ lastEvent.wasSubmitted = TRUE

----------------------------------------------------------------------------
(* Properties of the derived validity flag *)

(* C5: in every reachable state the isFormValid the render uses equals     *)
(* (validateEmail(email) = "" and validatePassword(password) = "") for the *)
(* current email and password, whatever the stored errors and isSubmitted. *)
C5_IsFormValidCurrent ==
    isFormValid = (validateEmail(email) = "" /\ validatePassword(password) = "")

C5_Witness ==
    /\ lastEvent.op = "passwordChange"
    /\ lastEvent.same = FALSE
    /\ isFormValid
    /\ ~isSubmitted

----------------------------------------------------------------------------
(* Properties of the validators, checked on direct calls (SpecCall) *)

(* C6: validateEmail(s) = "" exactly when s is non-empty, contains no      *)
(* whitespace, and has an '@' after at least one character, followed       *)
(* after at least one more character by a '.', followed by at least one    *)
(* character.                                                              *)
C6_EmailAcceptedIffForm ==
    "validateEmail" \in called =>
        ( emailResult = ""
          <=> /\ input # <<>>
              /\ \A k \in 1..Len(input) : input[k] \notin WhiteSpace
              /\ \E i, j \in 1..Len(input) :
                    /\ 2 <= i
                    /\ input[i] = "@"
                    /\ i + 2 <= j
                    /\ input[j] = "."
                    /\ j + 1 <= Len(input) )

C6_Witness ==
    /\ "validateEmail" \in called
    /\ emailResult = ""
    /\ Len(input) = 6
    /\ input[2] = "@"
    /\ input[3] = "@"

(* C7: validatePassword(s) = "" exactly when s has at least 6 characters,  *)
(* whatever the characters are.                                            *)
C7_PasswordAcceptedIffLength ==
    "validatePassword" \in called =>
        (passwordResult = "" <=> Len(input) >= 6)

C7_Witness ==
    /\ "validatePassword" \in called
    /\ passwordResult = ""
    /\ Len(input) >= 6
    /\ \A k \in 1..Len(input) : input[k] \in WhiteSpace

(* C8: for the empty input validateEmail returns "Email is required." and  *)
(* validatePassword "Password is required."; for a non-empty rejected      *)
(* input they return the format message and the length message; the        *)
(* 'required' message is never returned for a non-empty input.             *)
C8_MessagePrecedence ==
    /\ "validateEmail" \in called =>
          /\ input = <<>> => emailResult = "Email is required."
          /\ input # <<>> =>
                emailResult \in
                    {"", "Please enter a valid email address (e.g., user@domain.com)."}
    /\ "validatePassword" \in called =>
          /\ input = <<>> => passwordResult = "Password is required."
          /\ Len(input) \in 1..5 =>
                passwordResult = "Password must be at least 6 characters long."
          /\ input # <<>> => passwordResult # "Password is required."

C8_Witness ==
    /\ called = {"validateEmail", "validatePassword"}
    /\ input # <<>>
    /\ emailResult = "Please enter a valid email address (e.g., user@domain.com)."
    /\ passwordResult = "Password must be at least 6 characters long."

----------------------------------------------------------------------------
(* Properties of the change handlers and of the mount state (Spec) *)

(* C9: an email-change with new value v ends with email = v, emailError =  *)
(* validateEmail(v) and isSubmitted false; a password-change with new      *)
(* value v ends with password = v, passwordError = validatePassword(v) and *)
(* isSubmitted false.                                                      *)
C9_ChangeStoresValueAndError ==
    [][ /\ lastEvent'.op = "emailChange" =>
              /\ email' = lastEvent'.arg
              /\ emailError' = validateEmail(lastEvent'.arg)
              /\ isSubmitted' = FALSE
        /\ lastEvent'.op = "passwordChange" =>
              /\ password' = lastEvent'.arg
              /\ passwordError' = validatePassword(lastEvent'.arg)
              /\ isSubmitted' = FALSE ]_vars

C9_Witness ==
    /\ lastEvent.op = "passwordChange"
    /\ lastEvent.same = FALSE
    /\ password = lastEvent.arg
    /\ Len(password) = 5
    /\ passwordError = "Password must be at least 6 characters long."
    /\ emailError = ""
    /\ email # <<>>

(* C10: at mount email, password, emailError and passwordError are empty   *)
(* and isSubmitted is false, and isFormValid is false although both stored *)
(* errors are empty.                                                       *)
C10_MountState ==
    lastEvent.op = "mount" =>
        /\ email = <<>>
        /\ password = <<>>
        /\ emailError = ""
        /\ passwordError = ""
        /\ isSubmitted = FALSE
        /\ isFormValid = FALSE

C10_Witness ==
    /\ lastEvent.op = "mount"
    /\ email = <<>>
    /\ password = <<>>
    /\ emailError = ""
    /\ passwordError = ""
    /\ ~isSubmitted
    /\ ~isFormValid

----------------------------------------------------------------------------
(* Behaviour of the submission flag over steps *)

(* C11: isSubmitted goes from false to true only by a submit step and from *)
(* true to false only by an edit step; a submit taken while isSubmitted is *)
(* true leaves it true.                                                    *)
C11_FlagMachine ==
    [][ /\ (isSubmitted = FALSE /\ isSubmitted' = TRUE) => lastEvent'.op = "submit"
        /\ (isSubmitted = TRUE /\ isSubmitted' = FALSE) =>
              lastEvent'.op \in {"emailChange", "passwordChange"}
        /\ (isSubmitted = TRUE /\ lastEvent'.op = "submit") =>
              (isSubmitted' = TRUE /\ diag'[1][1] = "log") ]_vars

C11_Witness ==
    /\ lastEvent.op = "passwordChange"
    /\ lastEvent.wasSubmitted
    /\ lastEvent.same = FALSE
    /\ ~isSubmitted

(* C12: a submit validates the email and password that the most recent     *)
(* edits wrote, and the errors it stores replace the ones stored before,   *)
(* including the empty errors of a form that was never touched.            *)
C12_SubmitReadsLatestValues ==
    [][ lastEvent'.op = "submit" =>
          /\ emailError' = validateEmail(email)
          /\ passwordError' = validatePassword(password)
          /\ lastEvent.op = "emailChange" =>
                emailError' = validateEmail(lastEvent.arg)
          /\ lastEvent.op = "passwordChange" =>
                passwordError' = validatePassword(lastEvent.arg)
          /\ recomputed = {} =>
                /\ emailError' = "Email is required."
                /\ passwordError' = "Password is required." ]_vars

C12_Witness ==
    /\ lastEvent.op = "submit"
    /\ email # <<>>
    /\ password = <<>>
    /\ emailError = "Please enter a valid email address (e.g., user@domain.com)."
    /\ passwordError = "Password is required."

(* C13: emailError is "" or validateEmail(email), passwordError is "" or   *)
(* validatePassword(password); once a field has been edited or a submit    *)
(* has run, that field's stored error equals its validator applied to the  *)
(* current value.                                                          *)
C13_StoredErrorsCurrent ==
    /\ emailError \in {"", validateEmail(email)}
    /\ passwordError \in {"", validatePassword(password)}
    /\ "email" \in recomputed => emailError = validateEmail(email)
    /\ "password" \in recomputed => passwordError = validatePassword(password)

C13_Witness ==
    /\ recomputed = {"email"}
    /\ emailError = ""
    /\ validateEmail(email) = ""
    /\ passwordError = ""
    /\ validatePassword(password) # ""

(* C14: every submit emits exactly one diagnostic: the failure diagnostic  *)
(* alone when a field is invalid, the success log alone, carrying the      *)
(* current email and password, when both are valid, in the step that sets  *)
(* isSubmitted; an edit emits none.                                        *)
C14_OneDiagnosticPerSubmit ==
    [][ /\ lastEvent'.op = "submit" =>
              /\ Len(diag') = 1
              /\ (validateEmail(email) # "" \/ validatePassword(password) # "") =>
                    /\ diag' = << <<"error", "Submission failed due to invalid form data.">> >>
                    /\ isSubmitted' = FALSE
              /\ (validateEmail(email) = "" /\ validatePassword(password) = "") =>
                    /\ diag' = << <<"log", "Form Submitted Successfully!",
                                    [email |-> email, password |-> password]>> >>
                    /\ isSubmitted' = TRUE
        /\ lastEvent'.op \in {"emailChange", "passwordChange"} => diag' = <<>> ]_vars

C14_Witness ==
    /\ lastEvent.op = "submit"
    /\ diag = << <<"log", "Form Submitted Successfully!",
                   [email |-> email, password |-> password]>> >>
    /\ isSubmitted
    /\ email # <<>>

(* C15: emailError is always "", "Email is required." or the format        *)
(* message, and passwordError is always "", "Password is required." or the *)
(* length message.                                                         *)
C15_ErrorTaxonomy ==
    /\ emailError \in
          {"", "Email is required.",
           "Please enter a valid email address (e.g., user@domain.com)."}
    /\ passwordError \in
          {"", "Password is required.",
           "Password must be at least 6 characters long."}

C15_Witness ==
    /\ emailError = "Please enter a valid email address (e.g., user@domain.com)."
    /\ passwordError = "Password must be at least 6 characters long."
    /\ lastEvent.op = "emailChange"

(* C16: while isSubmitted is true both validators accept the current       *)
(* values, both stored errors are empty and isFormValid is true.           *)
C16_BannerOnlyWhenValid ==
    isSubmitted = TRUE =>
        /\ validateEmail(email) = ""
        /\ validatePassword(password) = ""
        /\ emailError = ""
        /\ passwordError = ""
        /\ isFormValid = TRUE

C16_Witness ==
    /\ isSubmitted
    /\ isFormValid
    /\ emailError = ""
    /\ passwordError = ""
    /\ Len(email) = 5
    /\ Len(password) >= 6

----------------------------------------------------------------------------
(* The form driven through the button (SpecButton) *)

(* C17: the button is disabled exactly when a validator rejects the        *)
(* current email or password; with submits issued only through the enabled *)
(* button every submit succeeds, no failure diagnostic is emitted and no   *)
(* 'required' error is stored for a field that was never edited.           *)
C17_ButtonGuardsSubmit ==
    /\ ButtonDisabled <=> (validateEmail(email) # "" \/ validatePassword(password) # "")
    /\ lastEvent.op = "submit" =>
          /\ isSubmitted = TRUE
          /\ diag[1][1] = "log"
          /\ emailError = ""
          /\ passwordError = ""
    /\ "email" \notin recomputed => emailError = ""
    /\ "password" \notin recomputed => passwordError = ""

C17_Witness ==
    /\ lastEvent.op = "submit"
    /\ ~ButtonDisabled
    /\ isSubmitted
    /\ diag[1][1] = "log"

----------------------------------------------------------------------------
(* Frame and idempotence (Spec) *)

(* C18: an email change leaves password and passwordError unchanged, a     *)
(* password change leaves email and emailError unchanged, and a submit     *)
(* leaves email and password unchanged.                                    *)
C18_Frame ==
    [][ /\ lastEvent'.op = "emailChange" =>
              (password' = password /\ passwordError' = passwordError)
        /\ lastEvent'.op = "passwordChange" =>
              (email' = email /\ emailError' = emailError)
        /\ lastEvent'.op = "submit" =>
              (email' = email /\ password' = password) ]_vars

C18_Witness ==
    /\ lastEvent.op = "emailChange"
    /\ recomputed = {"email"}
    /\ password = <<>>
    /\ passwordError = ""
    /\ email # <<>>

(* C19: a submit taken in the state a submit has just produced leaves      *)
(* email, password, emailError, passwordError and isSubmitted as they are. *)
C19_SubmitIdempotent ==
    [][ (lastEvent.op = "submit" /\ lastEvent'.op = "submit") =>
          /\ email' = email
          /\ password' = password
          /\ emailError' = emailError
          /\ passwordError' = passwordError
          /\ isSubmitted' = isSubmitted ]_vars

C19_Witness ==
    /\ lastEvent.op = "submit"
    /\ lastEvent.wasSubmitted
    /\ isSubmitted
    /\ emailError = ""
    /\ passwordError = ""
    /\ diag[1][1] = "log"
    /\ recomputed = {"email", "password"}

====
